---- MODULE Spec2Model ----
(***************************************************************************)
(* Model of the extension runtime of sedit (src/sedit_linux_japanese.py):  *)
(* the event listener registry, the ExtensionManager (load_all, enable,    *)
(* disable, register_resource, register_menu_item, _cleanup_resources),    *)
(* the ExtensionAPI facade calls an extension makes, and the derived       *)
(* extensions menu with its toggle and reload commands.                    *)
(*                                                                         *)
(* Extension names are integers (sorted(info.items()) is their ascending   *)
(* order), and os.listdir is taken to list them in that order too.  A dict *)
(* whose missing key reads like an empty list (resources, menu_items,      *)
(* EVENT_LISTENERS: always read through .get(k, []) or setdefault(k, []))  *)
(* is a total function to sequences.                                       *)
(* ExtensionManager.submenus is only filled by get_submenu, which nothing  *)
(* calls, so it stays empty and lines 1340-1342 never act.                 *)
(* save_settings is modelled on its success path (the write succeeds).     *)
(***************************************************************************)
EXTENDS Integers, Sequences, FiniteSets, TLC

\* ------------------------------------------------------------------ bounds
MaxRes == 1
\* How many listeners the bus holds at most.
MaxSubs == 2
SrcLen == 2
MaxToggles == 1

\* The entries the extensions directory can hold.
Names == {1, 2}
ResIds == 1..MaxRes
NoOwner == 0
NoCallback == "none"

\* The events the editor publishes (lines 322, 534/1409, 548/1425).
Events == {"text_changed", "file_opened", "file_saved"}

\* The callbacks extensions subscribe; cb2 raises whenever it is called.
Callbacks == {"cb1", "cb2"}
Raisers == {"cb2"}

\* ------------------------------------------------------------- state
VARIABLES
    pc,                 \* "startup" before line 1520 has run, then "running"
    loaded,             \* ExtensionManager.loaded: name -> "absent" | "none" | "mod"
    info,               \* ExtensionManager.info: name -> descriptor
    resources,          \* ExtensionManager.resources: name -> Seq(ResIds)
    menu_items,         \* ExtensionManager.menu_items: name -> Seq(Labels)
    enabled_extensions, \* SETTINGS['enabled_extensions']
    EVENT_LISTENERS,    \* event -> Seq([cb, owner, threaded])
    menu,               \* the entries of menu_ext
    resKind,            \* what _cleanup_resources sees in a resource: "destroy"
                        \* (a callable destroy attribute), "call" (callable
                        \* itself), or "unused" (not yet created)
    destroyCalls,       \* how often r.destroy() was called
    selfCalls,          \* how often r() was called
    lifecycle,          \* history: name -> "fresh" | "on" | "off", see below
    last,               \* what the last operation did (observation only);
                        \* restart: it was an enable right after a disable
                        \* of the same extension
    frame,              \* the latest call of emit_event: its event, the copy
                        \* of the listener list it loops over, its position
                        \* and its loop variable cb
    after_queue,        \* callbacks handed to root.after(0, ...), not yet run
    workers,            \* started threads that have not yet called their target
    calls,              \* callback -> invocations by the emit_event of frame
    stackCalls,         \* invocations made inside emit_event itself
    ran,                \* the non-threaded listeners of frame that have been
                        \* called, in the order of the calls
    busop,              \* the last operation on the event bus (observation
                        \* only); removed: how many entries it took off
    runner,             \* the debug worker thread: where it is in
                        \* _thread_runner / user_line, the line the traced
                        \* program is at, and user_line's local `action`
    gui_bdb,            \* the SimpleGuiBdb of the session: _wait_event,
                        \* _next_action, _stop_requested, and of bdb.Bdb the
                        \* stop mode and the breaks table
    gui_q,              \* the queue q of open_debugger
    out,                \* the lines of the debugger's output pane
    source,             \* the text start_debug took from the editor
    polling,            \* the owner thread is inside the loop of poll_queue
    trail,              \* history of the session (observation only), see below
    file,               \* the module global `file`: the current file name
    text,               \* the content of the editor's text widget
    disk,               \* path -> content of the file there
    ext_settings,       \* SETTINGS['extensions']: has, the key is there;
                        \* of: name -> object
    apiop,              \* the last call on an ExtensionAPI (observation only)
    runner2,            \* the worker thread of a second click on Start,
    gui_bdb2,           \* its SimpleGuiBdb
    source2             \* and its source

vars == <<pc, loaded, info, resources, menu_items, enabled_extensions,
          EVENT_LISTENERS, menu, resKind, destroyCalls, selfCalls, lifecycle,
          last, frame, after_queue, workers, calls, stackCalls, ran, busop,
          runner, gui_bdb, gui_q, out, source, polling, trail,
          file, text, disk, ext_settings, apiop, runner2, gui_bdb2, source2>>

\* What only the event bus and its threads touch.
BusVars == <<frame, after_queue, workers, calls, stackCalls, ran, busop>>

\* What only the debugger window and its worker thread touch.
DbgVars == <<runner, gui_bdb, gui_q, out, source, polling, trail>>

\* What the file and settings calls of the ExtensionAPI touch, besides
\* SETTINGS['enabled_extensions'].
ApiVars == <<file, text, disk, ext_settings, apiop>>

\* What only a second debug worker touches, besides the queue and the pane.
SecondVars == <<runner2, gui_bdb2, source2>>

\* `file` is None until a file is opened or saved; an empty path argument
\* and a cancelled dialog are the empty string too.
NoFile == ""
Paths == {"a", "b"}
\* An extension without an entry in SETTINGS['extensions'], and SETTINGS
\* without that key.
Absent == "absent"
NoKey == [has |-> FALSE, of |-> [n \in Names |-> Absent]]
\* What extensions store, and the {} that get_extension_settings defaults to.
Objs == {"o1", "o2"}
EmptyObj == "{}"
NoApiOp == [op |-> "init", name |-> 0, path |-> NoFile, dialog |-> NoFile,
            ok |-> TRUE, ret |-> TRUE, events |-> <<>>, obj |-> EmptyObj,
            fileBefore |-> NoFile,
            seen |-> [n \in Names |-> EmptyObj], enabledBefore |-> <<>>]

\* lifecycle[n] records what the code itself does not keep: "fresh" since
\* load_all made the descriptor (line 1290), "on" since enable ran past its
\* setup step (line 1322), "off" since disable ran its body (line 1343).

\* Before the first call of emit_event there is no frame.
NoFrame == [active |-> FALSE, event |-> "", snap |-> <<>>, i |-> 1,
            cb |-> NoCallback]

NoInfo == [present |-> FALSE, enabled |-> FALSE, error |-> FALSE]

\* The directives of user_line (lines 1048-1054); _next_action starts as None.
Actions == {"step", "next", "continue", "quit"}
NoAction == "none"

\* Before start_debug there is no worker thread and no source.
NoThread == [pc |-> "off", lineno |-> 1, action |-> NoAction]
NoSource == [compiles |-> TRUE, raiseAt |-> 0]

\* SimpleGuiBdb.__init__ (lines 1030-1036) and Bdb.reset: the event clear,
\* no directive, no breakpoints, stopping at every line.
NewBdb == [wait_event |-> FALSE, next_action |-> NoAction,
           stop_requested |-> FALSE, stopinfo |-> "step", breaks |-> {}]

\* trail records what the code itself does not keep: produced, every message
\* the worker has put, in order; fresh, a directive was issued since the
\* worker's last _wait_event.clear(); pending, a directive was issued after
\* the owner took the stopped message of the current stop off the queue and
\* the worker has not resumed since; waker, the latest directive issued
\* while the worker was parked in its wait.
NoTrail == [produced |-> <<>>, fresh |-> FALSE, pending |-> FALSE,
            waker |-> NoAction]

\* ------------------------------------------------------------- helpers
RECURSIVE RemoveFirst(_, _)
\* list.remove(x): drops the first occurrence of x.
RemoveFirst(s, x) ==
    IF s = <<>> THEN <<>>
    ELSE IF Head(s) = x THEN Tail(s)
    ELSE <<Head(s)>> \o RemoveFirst(Tail(s), x)

InSeq(x, s) == \E i \in 1..Len(s) : s[i] = x

\* Sequences over S without repetition (what enable/disable keep the
\* persisted list to be).
RECURSIVE DistinctSeqs(_)
DistinctSeqs(S) ==
    {<<>>} \cup UNION {{<<x>> \o t : t \in DistinctSeqs(S \ {x})} : x \in S}

\* ------------------------------------------------------------- event bus
\* add_event_listener: append (callback, owner, bool(threaded)).
add_event_listener(L, event, callback, owner, threaded) ==
    [L EXCEPT ![event] = Append(@, [cb |-> callback, owner |-> owner,
                                    threaded |-> threaded])]

\* The three branches of the loop body of remove_event_listener, which
\* decide whether an entry is put on the new list.
ListenerKept(e, callback, owner) ==
    IF callback # NoCallback /\ e.cb # callback THEN TRUE
    ELSE IF owner # NoOwner /\ e.owner # owner THEN TRUE
    ELSE IF callback = NoCallback /\ owner = NoOwner THEN TRUE
    ELSE FALSE

\* A variant of remove_event_listener that empties the event's list.
remove_event_listener_all(L, event, callback, owner) ==
    [L EXCEPT ![event] = <<>>]

\* A variant of remove_event_listener that does not look at the owner when
\* a callback is given.
remove_event_listener_any_owner(L, event, callback, owner) ==
    IF callback = NoCallback
    THEN [L EXCEPT ![event] = SelectSeq(@, LAMBDA e : ListenerKept(e, callback, owner))]
    ELSE [L EXCEPT ![event] = SelectSeq(@, LAMBDA e : e.cb # callback)]

remove_event_listener(L, event, callback, owner) ==
    IF L[event] = <<>> THEN L
    ELSE LET keep(e) == ListenerKept(e, callback, owner)
         IN [L EXCEPT ![event] = SelectSeq(@, keep)]

\* ------------------------------------------------------------- menu
FixedEntry(k) == [kind |-> k, name |-> 0, checked |-> FALSE, label |-> ""]

ItemEntries(n, items) ==
    [i \in 1..Len(items) |->
        [kind |-> "item", name |-> n, checked |-> FALSE, label |-> items[i]]]

\* One pass of the loop of build_extensions_menu for descriptor n: the
\* checkbutton, the 'Open README' / 'Open Folder' command (dir is always
\* set by load_all, so one of the two is added), then the registered items.
ExtEntries(n, meta, items) ==
    <<[kind |-> "toggle", name |-> n, checked |-> meta.enabled, label |-> ""],
      [kind |-> "aux", name |-> n, checked |-> FALSE, label |-> ""]>>
    \o ItemEntries(n, items)

Least(ns) == CHOOSE n \in ns : \A m \in ns : n <= m

RECURSIVE MenuFrom(_, _, _)
\* for name, meta in sorted(ext_manager.info.items())
MenuFrom(ns, inf, items) ==
    IF ns = {} THEN <<>>
    ELSE LET n == Least(ns)
         IN ExtEntries(n, inf[n], items[n]) \o MenuFrom(ns \ {n}, inf, items)

\* The menu build_extensions_menu leaves in menu_ext.
MenuOf(inf, items) ==
    <<FixedEntry("open_folder"), FixedEntry("reload"), FixedEntry("separator")>>
    \o MenuFrom({n \in Names : inf[n].present}, inf, items)

\* ------------------------------------------------------------- manager
\* The program state an operation works on, with the observations of the
\* operation in progress (which hooks it invoked, what it raised).
Cur ==
    [loaded |-> loaded, info |-> info, resources |-> resources,
     menu_items |-> menu_items, settings |-> enabled_extensions,
     listeners |-> EVENT_LISTENERS, menu |-> menu, resKind |-> resKind,
     destroyCalls |-> destroyCalls, selfCalls |-> selfCalls,
     lifecycle |-> lifecycle,
     exc |-> "none", rebuilt |-> FALSE, full |-> FALSE,
     setupCalled |-> {}, setupRaised |-> {},
     tdCalled |-> {}, tdRaised |-> {}]

\* A variant of build_extensions_menu without line 1477: the entries are
\* added beneath those already there.
build_extensions_menu_append(S) ==
    [S EXCEPT !.menu = S.menu \o MenuOf(S.info, S.menu_items), !.rebuilt = TRUE]

build_extensions_menu(S) ==
    [S EXCEPT !.menu = MenuOf(S.info, S.menu_items), !.rebuilt = TRUE]

\* A variant of save_settings that leaves SETTINGS as it was.
save_settings_kept(S, cur) ==
    S

\* save_settings({'enabled_extensions': cur})
save_settings(S, cur) ==
    [S EXCEPT !.settings = cur]

UnusedIds(S) == {r \in ResIds : S.resKind[r] = "unused"}

\* ExtensionManager.register_resource; the resource is a new object of the
\* given kind (full: the model has no object left to hand out).
register_resource(S, name, kind) ==
    IF UnusedIds(S) = {} THEN [S EXCEPT !.full = TRUE]
    ELSE LET r == CHOOSE x \in UnusedIds(S) : \A y \in UnusedIds(S) : x <= y
         IN [S EXCEPT !.resKind[r] = kind,
                      !.resources[name] = Append(@, r)]

\* ExtensionManager.register_menu_item
register_menu_item(S, name, label) ==
    [S EXCEPT !.menu_items[name] = Append(@, label)]

\* ExtensionAPI.on: add_event_listener(event, callback, owner=self.name,
\* threaded=False)
api_on(S, name, event, callback) ==
    [S EXCEPT !.listeners = add_event_listener(@, event, callback, name, FALSE)]

\* ExtensionAPI.off: remove_event_listener(event, callback, owner=self.name)
api_off(S, name, event, callback) ==
    [S EXCEPT !.listeners = remove_event_listener(@, event, callback, name)]

\* The body of the try of one pass of the loop of _cleanup_resources,
\* lines 1361-1364.
dispose_one(S, r) ==
    IF S.resKind[r] = "destroy" THEN [S EXCEPT !.destroyCalls[r] = @ + 1]
    ELSE IF S.resKind[r] = "call" THEN [S EXCEPT !.selfCalls[r] = @ + 1]
    ELSE S

RECURSIVE DisposeAll(_, _)
\* The loop of _cleanup_resources over list(self.resources.get(name)).  A
\* disposer that raises has been called all the same, and the except of
\* its own pass swallows what it raised: the loop goes on either way.
DisposeAll(S, rs) ==
    IF rs = <<>> THEN S
    ELSE DisposeAll(dispose_one(S, Head(rs)), Tail(rs))

\* ExtensionManager._cleanup_resources
cleanup_resources(S, name) ==
    [DisposeAll(S, S.resources[name]) EXCEPT !.resources[name] = <<>>]

\* ------------------------------------------------------------- hooks
\* An extension's setup(api) is code of the extension: a run of facade
\* calls (ExtensionAPI.add_command, register_resource, on), after which it
\* returns or raises.  A module without a callable setup has hook "absent".
AddCmd(l) == [call |-> "add_command", a |-> l, b |-> ""]
Reg(k) == [call |-> "register_resource", a |-> k, b |-> ""]
On(ev, cb) == [call |-> "on", a |-> ev, b |-> cb]

\* The setup of the spec's "greeter" (it adds the item 'Say Hi'), which
\* here also registers a disposable and subscribes to an event.
Greeter == <<AddCmd("Say Hi"), Reg("destroy"), On("file_saved", "cb1")>>

\* A setup that raises does so after it has added its item and registered
\* its disposable, which leaves the most behind.
RaisingScripts == {SubSeq(Greeter, 1, Len(Greeter) - 1)}

\* A setup that returns has run the whole script, or is the plain greeter
\* that only adds its item.
ReturningScripts == {Greeter, SubSeq(Greeter, 1, 1)}

\* What a call of the setup hook does: it runs its script and returns, or
\* it raises after a prefix of it.  (hook "absent": the module has no
\* callable setup; the extensions here all have one.)
SetupBeh ==
    {[hook |-> "ok", script |-> sc] : sc \in ReturningScripts}
    \cup {[hook |-> "raises", script |-> sc] : sc \in RaisingScripts}

NoHook == [hook |-> "absent", script |-> <<>>]

\* What a call of teardown(api) does ("absent": the module has none).
TdOut == {"ok", "raises"}

\* One facade call made by extension `name`.
api_call(S, name, c) ==
    IF c.call = "add_command" THEN register_menu_item(S, name, c.a)
    ELSE IF c.call = "register_resource" THEN register_resource(S, name, c.a)
    ELSE api_on(S, name, c.a, c.b)

RECURSIVE run_script(_, _, _)
run_script(S, name, script) ==
    IF script = <<>> THEN S
    ELSE run_script(api_call(S, name, Head(script)), name, Tail(script))

\* mod.setup(api), line 1321
run_setup(S, name, beh) ==
    [run_script(S, name, beh.script) EXCEPT
        !.setupCalled = @ \cup {name},
        !.setupRaised = IF beh.hook = "raises" THEN @ \cup {name} ELSE @]

\* ------------------------------------------------------------- enable
\* A variant of enable that logs the exception of setup and returns.
enable_swallows(S, name, beh) ==
    IF S.loaded[name] # "mod" THEN [S EXCEPT !.exc = "not_loaded"]
    ELSE LET S1 == [S EXCEPT !.menu_items[name] = <<>>]
             S2 == IF beh.hook = "absent" THEN S1 ELSE run_setup(S1, name, beh)
         IN IF beh.hook = "raises" THEN S2
            ELSE LET S3 == [S2 EXCEPT !.info[name] =
                                [@ EXCEPT !.present = TRUE, !.enabled = TRUE],
                                      !.lifecycle[name] = "on"]
                 IN build_extensions_menu(
                        IF InSeq(name, S3.settings) THEN S3
                        ELSE save_settings(S3, Append(S3.settings, name)))

\* A variant of enable without the test of line 1314.
enable_without_guard(S, name, beh) ==
    LET S1 == [S EXCEPT !.menu_items[name] = <<>>]
        S2 == IF beh.hook = "absent" THEN S1 ELSE run_setup(S1, name, beh)
    IN IF beh.hook = "raises" THEN [S2 EXCEPT !.exc = "setup"]
       ELSE LET S3 == [S2 EXCEPT !.info[name] =
                           [@ EXCEPT !.present = TRUE, !.enabled = TRUE],
                                 !.lifecycle[name] = "on"]
            IN build_extensions_menu(
                   IF InSeq(name, S3.settings) THEN S3
                   ELSE save_settings(S3, Append(S3.settings, name)))

\* A variant of enable without line 1318: the items of earlier runs stay.
enable_keeps_items(S, name, beh) ==
    IF S.loaded[name] # "mod" THEN [S EXCEPT !.exc = "not_loaded"]
    ELSE LET S2 == IF beh.hook = "absent" THEN S ELSE run_setup(S, name, beh)
         IN IF beh.hook = "raises" THEN [S2 EXCEPT !.exc = "setup"]
            ELSE LET S3 == [S2 EXCEPT !.info[name] =
                                [@ EXCEPT !.present = TRUE, !.enabled = TRUE],
                                      !.lifecycle[name] = "on"]
                 IN build_extensions_menu(
                        IF InSeq(name, S3.settings) THEN S3
                        ELSE save_settings(S3, Append(S3.settings, name)))

\* ExtensionManager.enable.  exc is what it raises to its caller:
\* "not_loaded" (line 1315), "setup" (the hook's exception, re-raised at
\* line 1329), or "none".
enable(S, name, beh) ==
    IF S.loaded[name] # "mod" THEN [S EXCEPT !.exc = "not_loaded"]
    ELSE LET S1 == [S EXCEPT !.menu_items[name] = <<>>]
             S2 == IF beh.hook = "absent" THEN S1 ELSE run_setup(S1, name, beh)
         IN IF beh.hook = "raises" THEN [S2 EXCEPT !.exc = "setup"]
            ELSE LET S3 == [S2 EXCEPT !.info[name] =
                                [@ EXCEPT !.present = TRUE, !.enabled = TRUE],
                                      !.lifecycle[name] = "on"]
                 IN build_extensions_menu(
                        IF InSeq(name, S3.settings) THEN S3
                        ELSE save_settings(S3, Append(S3.settings, name)))

\* ------------------------------------------------------------- disable
\* Lines 1338-1348: what disable does once the teardown hook is behind it.
disable_body(S, name) ==
    LET S1 == cleanup_resources(S, name)
        S2 == [S1 EXCEPT !.menu_items[name] = <<>>,
                         !.info[name] = [@ EXCEPT !.present = TRUE,
                                                  !.enabled = FALSE],
                         !.lifecycle[name] = "off"]
    IN build_extensions_menu(
           IF InSeq(name, S2.settings)
           THEN save_settings(S2, RemoveFirst(S2.settings, name))
           ELSE S2)

\* ExtensionManager.disable.  The whole body is one try whose except is
\* `pass`: a teardown hook that raises (line 1337) skips lines 1338-1348.
disable(S, name, td) ==
    IF S.loaded[name] # "mod" THEN S
    ELSE IF td = "raises"
         THEN [S EXCEPT !.tdCalled = @ \cup {name}, !.tdRaised = @ \cup {name}]
    ELSE IF td = "ok"
         THEN disable_body([S EXCEPT !.tdCalled = @ \cup {name}], name)
    ELSE disable_body(S, name)

\* ------------------------------------------------------------- load_all
Total(f, default) == [n \in Names |-> IF n \in DOMAIN f THEN f[n] ELSE default]

RECURSIVE disable_enabled(_, _, _)
\* Lines 1272-1277: disable every descriptor that is marked enabled (the
\* keys of info are taken in ascending order; each pass touches only its
\* own extension, the persisted list and the menu).
disable_enabled(S, ns, td) ==
    IF ns = {} THEN S
    ELSE LET n == Least(ns)
         IN disable_enabled(
                IF S.info[n].present /\ S.info[n].enabled
                THEN disable(S, n, td[n]) ELSE S,
                ns \ {n}, td)

\* Line 1278: the four registries are replaced by empty dicts.
clear_registries(S) ==
    [S EXCEPT !.loaded = [n \in Names |-> "absent"],
              !.info = [n \in Names |-> NoInfo],
              !.menu_items = [n \in Names |-> <<>>],
              !.resources = [n \in Names |-> <<>>]]

\* Lines 1279-1296: files is what _scan_files finds, bad the entries whose
\* module fails to import; enabled is the persisted list read at line 1280.
scan_and_load(S, files, bad) ==
    LET enabled == S.settings
    IN [S EXCEPT
          !.loaded = [n \in Names |->
                        IF n \notin files THEN "absent"
                        ELSE IF n \in bad THEN "none" ELSE "mod"],
          !.info = [n \in Names |->
                        IF n \notin files THEN NoInfo
                        ELSE IF n \in bad
                             THEN [present |-> TRUE, enabled |-> FALSE,
                                   error |-> TRUE]
                        ELSE [present |-> TRUE, enabled |-> InSeq(n, enabled),
                              error |-> FALSE]],
          !.lifecycle = [n \in Names |-> "fresh"]]

RECURSIVE enable_marked_abort(_, _, _)
\* A variant of the loop of lines 1297-1302 without its try: the first
\* enable that raises ends the loop.
enable_marked_abort(S, ns, beh) ==
    IF ns = {} \/ S.exc # "none" THEN S
    ELSE LET n == Least(ns)
         IN enable_marked_abort(
                IF S.info[n].present /\ S.info[n].enabled
                THEN enable(S, n, beh[n]) ELSE S,
                ns \ {n}, beh)

RECURSIVE enable_marked(_, _, _)
\* Lines 1297-1302: enable every descriptor marked enabled; what enable
\* raises is swallowed.
enable_marked(S, ns, beh) ==
    IF ns = {} THEN S
    ELSE LET n == Least(ns)
         IN enable_marked(
                IF S.info[n].present /\ S.info[n].enabled
                THEN [enable(S, n, beh[n]) EXCEPT !.exc = "none"] ELSE S,
                ns \ {n}, beh)

\* Lines 1272-1278
load_all_front(S, td) == clear_registries(disable_enabled(S, Names, td))

\* Lines 1279-1302
load_all_back(S, files, bad, beh) ==
    enable_marked(scan_and_load(S, files, bad), Names, beh)

\* ExtensionManager.load_all
load_all(S, td, files, bad, beh) ==
    load_all_back(load_all_front(S, td), files, bad, beh)

\* ------------------------------------------------------------- inputs
EnabledNow == {n \in Names : info[n].present /\ info[n].enabled}
\* The extensions load_all will call enable for, given what it has
\* disabled and scanned.
ToEnable(S, files, bad) == {n \in files \ bad : InSeq(n, S.settings)}

\* ------------------------------------------------------------- actions
Commit(T, op, name, files, bad) ==
  \E S \in {T} :
    /\ ~S.full
    /\ loaded' = S.loaded
    /\ info' = S.info
    /\ resources' = S.resources
    /\ menu_items' = S.menu_items
    /\ enabled_extensions' = S.settings
    /\ EVENT_LISTENERS' = S.listeners
    /\ menu' = S.menu
    /\ resKind' = S.resKind
    /\ destroyCalls' = S.destroyCalls
    /\ selfCalls' = S.selfCalls
    /\ lifecycle' = S.lifecycle
    /\ last' = [op |-> op, name |-> name, exc |-> S.exc, rebuilt |-> S.rebuilt,
                setupCalled |-> S.setupCalled, setupRaised |-> S.setupRaised,
                tdCalled |-> S.tdCalled, tdRaised |-> S.tdRaised,
                files |-> files, bad |-> bad,
                restart |-> /\ op \in {"enable", "toggle_on"}
                            /\ last.op \in {"disable", "toggle_off"}
                            /\ last.name = name]
    /\ UNCHANGED BusVars
    /\ UNCHANGED DbgVars
    /\ UNCHANGED ApiVars
    /\ UNCHANGED SecondVars

\* The load_all of an action, over everything the environment decides.
LoadAllWith(op, then_build) ==
    \E td \in [EnabledNow -> TdOut] :
      \E S1 \in {load_all_front(Cur, Total(td, "absent"))} :
        \E files \in SUBSET Names :
          \E bad \in SUBSET files :
            \E beh \in [ToEnable(S1, files, bad) -> SetupBeh] :
              \E S2 \in {load_all_back(S1, files, bad, Total(beh, NoHook))} :
                Commit(IF then_build THEN build_extensions_menu(S2) ELSE S2,
                       op, 0, files, bad)

\* Lines 1520-1524: the load at program start.
Startup ==
    /\ pc = "startup"
    /\ pc' = "running"
    /\ LoadAllWith("startup", TRUE)

\* The reload command of the menu, lines 1470-1471 and 1482-1483.
Reload ==
    /\ pc = "running"
    /\ pc' = pc
    /\ LoadAllWith("reload", TRUE)

\* ExtensionManager.enable(n)
Enable(n) ==
    /\ pc = "running"
    /\ pc' = pc
    /\ \E beh \in SetupBeh : Commit(enable(Cur, n, beh), "enable", n, {}, {})

\* ExtensionManager.disable(n)
Disable(n) ==
    /\ pc = "running"
    /\ pc' = pc
    /\ \E td \in TdOut : Commit(disable(Cur, n, td), "disable", n, {}, {})

\* The checkbutton of extension n as the menu shows it.
ToggleEntry(n) == {i \in 1..Len(menu) : menu[i].kind = "toggle" /\ menu[i].name = n}

\* make_toggle._toggle, lines 1488-1498: the click has flipped the
\* checkbutton's variable v before the command runs.
toggle(S, n, v, beh, td) ==
    build_extensions_menu(IF v THEN enable(S, n, beh) ELSE disable(S, n, td))

Toggle(n) ==
    /\ pc = "running"
    /\ pc' = pc
    /\ \E i \in ToggleEntry(n) :
         IF ~menu[i].checked
         THEN \E beh \in SetupBeh :
                Commit(toggle(Cur, n, TRUE, beh, "absent"), "toggle_on", n, {}, {})
         ELSE \E td \in TdOut :
                Commit(toggle(Cur, n, FALSE, NoHook, td), "toggle_off", n, {}, {})

\* ExtensionManager.register_resource / ExtensionAPI.register_resource,
\* called by extension code outside its setup hook, here with a callable.
RegisterResource(n) ==
    /\ pc = "running"
    /\ pc' = pc
    /\ Commit(register_resource(Cur, n, "call"), "register_resource", n, {}, {})


\* ------------------------------------------------------------- spec
\* After construction (lines 1466-1474): empty registries, the three fixed
\* entries in the menu, and whatever list an earlier run persisted.
Init ==
    /\ pc = "startup"
    /\ loaded = [n \in Names |-> "absent"]
    /\ info = [n \in Names |-> NoInfo]
    /\ resources = [n \in Names |-> <<>>]
    /\ menu_items = [n \in Names |-> <<>>]
    /\ enabled_extensions \in DistinctSeqs(Names)
    /\ EVENT_LISTENERS = [e \in Events |-> <<>>]
    /\ menu = <<FixedEntry("open_folder"), FixedEntry("reload"),
                FixedEntry("separator")>>
    /\ resKind = [r \in ResIds |-> "unused"]
    /\ destroyCalls = [r \in ResIds |-> 0]
    /\ selfCalls = [r \in ResIds |-> 0]
    /\ lifecycle = [n \in Names |-> "fresh"]
    /\ last = [op |-> "init", name |-> 0, exc |-> "none", rebuilt |-> FALSE,
               setupCalled |-> {}, setupRaised |-> {},
               tdCalled |-> {}, tdRaised |-> {}, files |-> {}, bad |-> {},
               restart |-> FALSE]
    /\ frame = NoFrame
    /\ after_queue = <<>>
    /\ workers = 0
    /\ calls = [c \in Callbacks |-> 0]
    /\ stackCalls = 0
    /\ ran = <<>>
    /\ busop = [op |-> "init", event |-> "", callback |-> NoCallback,
                owner |-> NoOwner, exc |-> "none", removed |-> 0]
    /\ runner = NoThread
    /\ gui_bdb = NewBdb
    /\ gui_q = <<>>
    /\ out = <<>>
    /\ source = NoSource
    /\ polling = FALSE
    /\ trail = NoTrail
    /\ file = NoFile
    /\ text = ""
    /\ disk = [p \in Paths |-> IF p = "a" THEN "x" ELSE "y"]
    /\ ext_settings = NoKey
    /\ apiop = NoApiOp
    /\ runner2 = NoThread
    /\ gui_bdb2 = NewBdb
    /\ source2 = NoSource

Next ==
    \/ Startup
    \/ Reload
    \/ \E n \in Names : Enable(n)
    \/ \E n \in Names : Disable(n)
    \/ \E n \in Names : Toggle(n)
    \/ \E n \in Names : RegisterResource(n)

Spec == Init /\ [][Next]_vars

\* ------------------------------------------------------------- event bus
\* The bus and the threads around one call of emit_event, as a record.
BusCur ==
    [L |-> EVENT_LISTENERS, frame |-> frame, q |-> after_queue,
     workers |-> workers, calls |-> calls, stackCalls |-> stackCalls,
     ran |-> ran, exc |-> "none"]

\* A variant of line 117 that takes the listeners of every event.
snapshot_all(L, event) ==
    L["text_changed"] \o L["file_opened"] \o L["file_saved"]

\* Line 117: the copy of the event's list that the loop runs over.
snapshot(L, event) ==
    L[event]

\* _safe_call: the callback runs; what it raises is logged and swallowed.
safe_call(B, cb) == [B EXCEPT !.calls[cb] = @ + 1]

\* emit_event up to its loop.  With an empty list it returns at once.
emit_begin(B, event) ==
    LET snap == snapshot(B.L, event)
    IN [B EXCEPT !.frame = [active |-> snap # <<>>, event |-> event,
                            snap |-> snap, i |-> 1, cb |-> NoCallback],
                 !.calls = [c \in Callbacks |-> 0],
                 !.stackCalls = 0,
                 !.ran = <<>>]

\* One pass of the loop of emit_event (lines 117-128) for entry i of the
\* copy: the loop variable cb is bound to the entry's callback; a threaded
\* listener gets a started thread whose target reads cb when it runs
\* (line 120), another is handed to root.after with its callback bound
\* (line 124), and is called on the spot when root.after raises (line 126).
\* After the last entry emit_event returns.
emit_step(B, after_ok) ==
    LET e == B.frame.snap[B.frame.i]
        B1 == [B EXCEPT !.frame.cb = e.cb,
                        !.frame.i = @ + 1,
                        !.frame.active = (B.frame.i < Len(B.frame.snap))]
    IN IF e.threaded THEN [B1 EXCEPT !.workers = @ + 1]
       ELSE IF after_ok THEN [B1 EXCEPT !.q = Append(@, e.cb)]
       ELSE [safe_call(B1, e.cb) EXCEPT !.stackCalls = @ + 1,
                                        !.ran = Append(@, e.cb)]

\* A started thread runs its target, `lambda: _safe_call(cb, ...)`: cb is
\* the variable of the emit_event call, read now.
worker_run(B) == [safe_call(B, B.frame.cb) EXCEPT !.workers = @ - 1]

\* The owner thread, idle, runs the oldest callback queued by root.after.
idle_tick(B) ==
    [safe_call(B, Head(B.q)) EXCEPT !.q = Tail(@), !.ran = Append(@, Head(B.q))]

\* No call of emit_event is under way and none has left work behind.
Quiet == ~frame.active /\ workers = 0 /\ after_queue = <<>>

ManagerVars == <<pc, loaded, info, resources, menu_items, enabled_extensions,
                 menu, resKind, destroyCalls, selfCalls, lifecycle, last>>

BusCommit(B, op, event, callback, owner) ==
    /\ EVENT_LISTENERS' = B.L
    /\ frame' = B.frame
    /\ after_queue' = B.q
    /\ workers' = B.workers
    /\ calls' = B.calls
    /\ stackCalls' = B.stackCalls
    /\ ran' = B.ran
    /\ busop' = [op |-> op, event |-> event, callback |-> callback,
                 owner |-> owner, exc |-> B.exc,
                 removed |-> IF op = "unsubscribe"
                             THEN Len(EVENT_LISTENERS[event]) - Len(B.L[event])
                             ELSE 0]
    /\ UNCHANGED ManagerVars
    /\ UNCHANGED DbgVars
    /\ UNCHANGED ApiVars
    /\ UNCHANGED SecondVars

\* A call of emit_event that has returned and left no work behind is
\* forgotten, with its counts, when the registry is changed.
forget(B) ==
    [B EXCEPT !.frame = NoFrame, !.calls = [c \in Callbacks |-> 0],
              !.stackCalls = 0, !.ran = <<>>]

\* The events and owners used on the bus here.
BusEvents == {"file_opened", "file_saved"}
Subscribed == Len(EVENT_LISTENERS["file_opened"]) + Len(EVENT_LISTENERS["file_saved"])

\* add_event_listener(event, callback, owner, threaded)
Subscribe(event, callback, owner, threaded) ==
    /\ Quiet
    /\ Subscribed < MaxSubs
    /\ BusCommit([forget(BusCur) EXCEPT
                     !.L = add_event_listener(@, event, callback, owner, threaded)],
                 "subscribe", event, callback, owner)

\* remove_event_listener(event, callback, owner), either filter may be None
Unsubscribe(event, callback, owner) ==
    /\ Quiet
    /\ BusCommit([forget(BusCur) EXCEPT
                     !.L = remove_event_listener(@, event, callback, owner)],
                 "unsubscribe", event, callback, owner)

\* emit_event(event) is called.
EmitBegin(event) ==
    /\ Quiet
    /\ BusCommit(emit_begin(BusCur, event), "emit", event, NoCallback, NoOwner)

EmitStep ==
    /\ frame.active
    /\ \E after_ok \in BOOLEAN :
         BusCommit(emit_step(BusCur, after_ok), "emit_step", frame.event,
                   NoCallback, NoOwner)

WorkerRun ==
    /\ workers > 0
    /\ BusCommit(worker_run(BusCur), "worker", frame.event, NoCallback, NoOwner)

IdleTick ==
    /\ after_queue # <<>>
    /\ BusCommit(idle_tick(BusCur), "tick", frame.event, NoCallback, NoOwner)

InitBus == Init /\ enabled_extensions = <<>>

NextBus ==
    \/ \E ev \in BusEvents, cb \in Callbacks, own \in Names, th \in BOOLEAN :
           Subscribe(ev, cb, own, th)
    \/ \E ev \in BusEvents, cb \in Callbacks \cup {NoCallback},
          own \in Names \cup {NoOwner} : Unsubscribe(ev, cb, own)
    \/ \E ev \in BusEvents : EmitBegin(ev)
    \/ EmitStep
    \/ WorkerRun
    \/ IdleTick

SpecBus == InitBus /\ [][NextBus]_vars

\* ------------------------------------------------------------- debugger
\* One debugger window (open_debugger) with one session: the owner thread
\* runs the buttons and poll_queue, the worker thread runs _thread_runner.
\* The traced program is SrcLen statements at module level, one per line;
\* it does not compile, or raises at line raiseAt, or neither.
Sources ==
    {[compiles |-> FALSE, raiseAt |-> 0]}
    \cup {[compiles |-> TRUE, raiseAt |-> l] : l \in 0..SrcLen}

\* A message on q and a line of the output pane.
Msg(tag, lineno) == [tag |-> tag, lineno |-> lineno]

\* The debugger as a record.
DbgCur ==
    [th |-> runner, bdb |-> gui_bdb, q |-> gui_q, out |-> out, source |-> source,
     polling |-> polling, trail |-> trail]

\* queue.Queue.put as the worker uses it.
put(D, m) ==
    [D EXCEPT !.q = Append(@, m), !.trail.produced = Append(@, m)]

\* start_debug (lines 1076-1083) and the construction of the session's
\* SimpleGuiBdb (line 1063).
start_debug(D, src) ==
    [D EXCEPT !.out = Append(@, Msg("started", 0)),
              !.source = src,
              !.bdb = NewBdb,
              !.th = [pc |-> "compile", lineno |-> 1, action |-> NoAction]]

\* What Bdb.run lets out of the traced program: it catches BdbQuit itself
\* (`except BdbQuit: pass`), everything else passes through.
bdb_run(exc) == IF exc = "BdbQuit" THEN "none" ELSE exc

\* _thread_runner after the try body (lines 1068-1074): the handler chosen
\* for what gui_bdb.run or compile raised.
runner_except(D, exc) ==
    [D EXCEPT !.th.pc = CASE exc = "BdbQuit" -> "exited"
                          [] exc = "Exception" -> "error"
                          [] OTHER -> "finally"]

\* Line 1065, then the start of gui_bdb.run.
runner_compile(D) ==
    IF D.source.compiles THEN [D EXCEPT !.th.pc = "trace", !.th.lineno = 1]
    ELSE runner_except(D, "Exception")

\* The traced program executes the statement of the current line.
run_line(D) ==
    IF D.source.raiseAt = D.th.lineno THEN runner_except(D, bdb_run("Exception"))
    ELSE IF D.th.lineno >= SrcLen THEN runner_except(D, bdb_run("none"))
    ELSE [D EXCEPT !.th.pc = "trace", !.th.lineno = @ + 1]

\* The tracer at a line event (Bdb.dispatch_line under gui_bdb.run, line
\* 1067): it stops when stepping or at a breakpoint of this session, and
\* then user_line runs up to its put (lines 1039-1044).
dispatch_line(D) ==
    IF D.bdb.stopinfo \in {"step", "next"} \/ D.th.lineno \in D.bdb.breaks
    THEN IF D.bdb.stop_requested THEN runner_except(D, bdb_run("BdbQuit"))
         ELSE [put(D, Msg("stopped", D.th.lineno)) EXCEPT !.th.pc = "clear"]
    ELSE run_line(D)

\* A variant of line 1045 that leaves the event as it is.
user_line_keep(D) ==
    [D EXCEPT !.th.pc = "wait"]

\* Line 1045: self._wait_event.clear()
user_line_clear(D) ==
    [D EXCEPT !.bdb.wait_event = FALSE, !.th.pc = "wait"]

\* Line 1046: self._wait_event.wait() returns once the event is set.
user_line_wait(D) == [D EXCEPT !.th.pc = "read"]

\* Line 1047: action = self._next_action
user_line_read(D) ==
    [D EXCEPT !.th.action = D.bdb.next_action, !.th.pc = "apply"]

\* Lines 1048-1056, and the traced program going on from there.
user_line_apply(D) ==
    LET a == D.th.action
    IN IF a = "quit"
       THEN runner_except([D EXCEPT !.bdb.stop_requested = TRUE],
                          bdb_run("BdbQuit"))
       ELSE run_line([D EXCEPT !.bdb.stopinfo =
                                  IF a \in {"step", "next", "continue"}
                                  THEN a ELSE @])

\* A variant of the runner's puts in which the put of line 1074 is the
\* else of the try instead of its finally.
runner_put_else(D) ==
    CASE D.th.pc = "exited" -> [put(D, Msg("exited", 0)) EXCEPT !.th.pc = "done"]
      [] D.th.pc = "error" -> [put(D, Msg("error", 0)) EXCEPT !.th.pc = "done"]
      [] OTHER -> [put(D, Msg("finished", 0)) EXCEPT !.th.pc = "done"]

\* Lines 1069, 1072 and 1074: the runner's puts.
runner_put(D) ==
    CASE D.th.pc = "exited" -> [put(D, Msg("exited", 0)) EXCEPT !.th.pc = "finally"]
      [] D.th.pc = "error" -> [put(D, Msg("error", 0)) EXCEPT !.th.pc = "finally"]
      [] OTHER -> [put(D, Msg("finished", 0)) EXCEPT !.th.pc = "done"]

\* SimpleGuiBdb.set_action
set_action(D, action) ==
    [D EXCEPT !.bdb.next_action = action, !.bdb.wait_event = TRUE]

\* A variant of line 1108 that takes the newest message.
get_nowait_newest(D) ==
    [D EXCEPT !.out = Append(@, D.q[Len(D.q)]),
              !.q = SubSeq(@, 1, Len(D.q) - 1)]

\* One pass of the loop of poll_queue (lines 1107-1120): q.get_nowait()
\* takes the oldest message, which is rendered into the pane.
get_nowait(D) ==
    [D EXCEPT !.out = Append(@, Head(D.q)), !.q = Tail(@)]

\* A variant of toggle_breakpoint that binds the line in the session.
toggle_breakpoint_bound(D, line) ==
    [D EXCEPT !.out = Append(@, Msg("breakpoint", line)),
              !.bdb.breaks = @ \cup {line}]

\* toggle_breakpoint (lines 1092-1099): set_break on a Bdb of its own, which
\* is dropped on return; the pane gets a line.
toggle_breakpoint(D, line) ==
    [D EXCEPT !.out = Append(@, Msg("breakpoint", line))]

\* The lines of the pane that poll_queue rendered.
Rendered == SelectSeq(out, LAMBDA m : m.tag \notin {"started", "breakpoint"})
Toggles == Len(SelectSeq(out, LAMBDA m : m.tag = "breakpoint"))
StoppedIn(s) == Len(SelectSeq(s, LAMBDA m : m.tag = "stopped"))

EditorVars == <<ManagerVars, EVENT_LISTENERS, BusVars>>

DbgCommit(D) ==
    /\ runner' = D.th
    /\ gui_bdb' = D.bdb
    /\ gui_q' = D.q
    /\ out' = D.out
    /\ source' = D.source
    /\ polling' = D.polling
    /\ trail' = D.trail
    /\ UNCHANGED EditorVars
    /\ UNCHANGED ApiVars
    /\ UNCHANGED SecondVars

\* The Start button.
StartDebug ==
    /\ ~polling
    /\ runner.pc = "off"
    /\ \E src \in Sources : DbgCommit(start_debug(DbgCur, src))

\* The Toggle BP button, with the cursor on some line.
ToggleBreakpoint ==
    /\ ~polling
    /\ Toggles < MaxToggles
    /\ \E line \in 1..SrcLen : DbgCommit(toggle_breakpoint(DbgCur, line))

\* The owner thread calls set_action on the running session.
SetAction ==
    /\ ~polling
    /\ runner.pc \notin {"off", "done"}
    /\ \E a \in Actions :
         DbgCommit([set_action(DbgCur, a) EXCEPT
                      !.trail.fresh = TRUE,
                      !.trail.pending =
                          \/ @
                          \/ /\ runner.pc \in {"clear", "wait"}
                             /\ StoppedIn(Rendered) = StoppedIn(trail.produced),
                      !.trail.waker = IF runner.pc = "wait" THEN a ELSE @])

\* The timer of line 1121 fires and poll_queue begins.
PollBegin ==
    /\ ~polling
    /\ DbgCommit([DbgCur EXCEPT !.polling = TRUE])

PollGet ==
    /\ polling
    /\ gui_q # <<>>
    /\ DbgCommit(get_nowait(DbgCur))

\* queue.Empty: the loop breaks and poll_queue reschedules itself.
PollEnd ==
    /\ polling
    /\ gui_q = <<>>
    /\ DbgCommit([DbgCur EXCEPT !.polling = FALSE])

WorkerCompile ==
    /\ runner.pc = "compile"
    /\ DbgCommit(runner_compile(DbgCur))

WorkerLine ==
    /\ runner.pc = "trace"
    /\ DbgCommit(dispatch_line(DbgCur))

WorkerClear ==
    /\ runner.pc = "clear"
    /\ DbgCommit([user_line_clear(DbgCur) EXCEPT !.trail.fresh = FALSE])

WorkerWait ==
    /\ runner.pc = "wait"
    /\ gui_bdb.wait_event
    /\ DbgCommit([user_line_wait(DbgCur) EXCEPT !.trail.pending = FALSE])

WorkerRead ==
    /\ runner.pc = "read"
    /\ DbgCommit(user_line_read(DbgCur))

WorkerApply ==
    /\ runner.pc = "apply"
    /\ DbgCommit(user_line_apply(DbgCur))

WorkerPut ==
    /\ runner.pc \in {"exited", "error", "finally"}
    /\ DbgCommit(runner_put(DbgCur))

InitDbg == Init /\ enabled_extensions = <<>>

NextDbg ==
    \/ StartDebug
    \/ ToggleBreakpoint
    \/ SetAction
    \/ PollBegin
    \/ PollGet
    \/ PollEnd
    \/ WorkerCompile
    \/ WorkerLine
    \/ WorkerClear
    \/ WorkerWait
    \/ WorkerRead
    \/ WorkerApply
    \/ WorkerPut

SpecDbg == InitDbg /\ [][NextDbg]_vars

\* ------------------------------------------------------------- second Start
\* The Start button clicked again in the same window.  start_debug has no
\* guard: each click makes a thread of its own with a SimpleGuiBdb of its
\* own, and all threads put on the one queue q.  Nothing in the window
\* calls set_action, so a session that stops stays parked here.
DbgCur2 ==
    [DbgCur EXCEPT !.th = runner2, !.bdb = gui_bdb2, !.source = source2]

Dbg2Commit(D) ==
    /\ runner2' = D.th
    /\ gui_bdb2' = D.bdb
    /\ source2' = D.source
    /\ gui_q' = D.q
    /\ out' = D.out
    /\ polling' = D.polling
    /\ trail' = D.trail
    /\ UNCHANGED <<runner, gui_bdb, source>>
    /\ UNCHANGED EditorVars
    /\ UNCHANGED ApiVars

\* The worker thread has been started and has not returned.
Live(t) == t.pc \notin {"off", "done"}

StartDebugAgain ==
    /\ ~polling
    /\ runner.pc # "off"
    /\ runner2.pc = "off"
    /\ \E src \in Sources : Dbg2Commit(start_debug(DbgCur2, src))

Worker2Compile ==
    /\ runner2.pc = "compile"
    /\ Dbg2Commit(runner_compile(DbgCur2))

Worker2Line ==
    /\ runner2.pc = "trace"
    /\ Dbg2Commit(dispatch_line(DbgCur2))

Worker2Clear ==
    /\ runner2.pc = "clear"
    /\ Dbg2Commit(user_line_clear(DbgCur2))

Worker2Put ==
    /\ runner2.pc \in {"exited", "error", "finally"}
    /\ Dbg2Commit(runner_put(DbgCur2))

NextStart ==
    \/ StartDebug
    \/ StartDebugAgain
    \/ PollBegin
    \/ PollGet
    \/ PollEnd
    \/ WorkerCompile
    \/ WorkerLine
    \/ WorkerClear
    \/ WorkerPut
    \/ Worker2Compile
    \/ Worker2Line
    \/ Worker2Clear
    \/ Worker2Put

SpecStart == InitDbg /\ [][NextStart]_vars

\* ------------------------------------------------------------- facade
\* The file and settings calls of an ExtensionAPI, as a record: what they
\* read and write, what they return and the calls of emit_event they make.
ApiCur ==
    [file |-> file, text |-> text, disk |-> disk,
     settings |-> [enabled_extensions |-> enabled_extensions,
                   extensions |-> ext_settings],
     ret |-> TRUE, events |-> <<>>]

\* A variant of open_file that sets the file name before reading.
open_file_early(A, path, readable) ==
    IF path = NoFile THEN [A EXCEPT !.ret = FALSE]
    ELSE IF ~readable THEN [A EXCEPT !.file = path, !.ret = FALSE]
    ELSE [A EXCEPT !.file = path, !.text = A.disk[path],
                   !.events = Append(@, [event |-> "file_opened", arg |-> path]),
                   !.ret = TRUE]

\* ExtensionAPI.open_file(path); readable: open and read succeed.
open_file(A, path, readable) ==
    IF path = NoFile THEN [A EXCEPT !.ret = FALSE]
    ELSE IF ~readable THEN [A EXCEPT !.ret = FALSE]
    ELSE [A EXCEPT !.file = path, !.text = A.disk[path],
                   !.events = Append(@, [event |-> "file_opened", arg |-> path]),
                   !.ret = TRUE]

\* Lines 1417-1421: the path given, else the current file, else the
\* answer of the save dialog (empty when cancelled).
SaveTarget(cur, path, dialog) ==
    IF path # NoFile THEN path ELSE IF cur # NoFile THEN cur ELSE dialog

\* ExtensionAPI.save_file(path); writable: open and write succeed.
save_file(A, path, dialog, writable) ==
    LET target == SaveTarget(A.file, path, dialog)
    IN IF target = NoFile THEN [A EXCEPT !.ret = FALSE]
       ELSE IF ~writable THEN [A EXCEPT !.ret = FALSE]
       ELSE [A EXCEPT !.disk[target] = A.text, !.file = target,
                      !.events = Append(@, [event |-> "file_saved", arg |-> target]),
                      !.ret = TRUE]

\* SETTINGS.get('extensions', {}).get(name, {})
get_extension_settings(SET, name) ==
    IF ~SET.extensions.has THEN EmptyObj
    ELSE IF SET.extensions.of[name] = Absent THEN EmptyObj
    ELSE SET.extensions.of[name]

\* save_settings({'extensions': ex}) (lines 76-87): SETTINGS is replaced by
\* the updated copy only after the file was written; otherwise the
\* exception is swallowed and SETTINGS stays.
save_settings_extensions(SET, ex, written) ==
    IF written THEN [SET EXCEPT !.extensions = ex] ELSE SET

\* ExtensionAPI.set_extension_settings(obj): ex is the dict inside SETTINGS
\* when the key is there, and is then changed in place; it is a new dict
\* otherwise.  It returns True either way.
set_extension_settings(A, name, obj, written) ==
    LET had == A.settings.extensions.has
        ex == IF had THEN [A.settings.extensions EXCEPT !.of[name] = obj]
              ELSE [has |-> TRUE, of |-> [NoKey.of EXCEPT ![name] = obj]]
        S1 == IF had THEN [A.settings EXCEPT !.extensions = ex] ELSE A.settings
    IN [A EXCEPT !.settings = save_settings_extensions(S1, ex, written),
                 !.ret = TRUE]

\* What every extension gets from get_extension_settings.
Seen(SET) == [n \in Names |-> get_extension_settings(SET, n)]

ApiCommit(A, op, name, path, dialog, ok, obj) ==
    /\ file' = A.file
    /\ text' = A.text
    /\ disk' = A.disk
    /\ enabled_extensions' = A.settings.enabled_extensions
    /\ ext_settings' = A.settings.extensions
    /\ apiop' = [op |-> op, name |-> name, path |-> path, dialog |-> dialog,
                 ok |-> ok, ret |-> A.ret, events |-> A.events, obj |-> obj,
                 fileBefore |-> file, seen |-> Seen(ApiCur.settings),
                 enabledBefore |-> enabled_extensions]
    /\ UNCHANGED <<pc, loaded, info, resources, menu_items, menu, resKind,
                   destroyCalls, selfCalls, lifecycle, last>>
    /\ UNCHANGED <<EVENT_LISTENERS, BusVars, DbgVars>>
    /\ UNCHANGED SecondVars

OpenFile ==
    \E path \in Paths \cup {NoFile}, readable \in BOOLEAN :
        ApiCommit(open_file(ApiCur, path, readable), "open_file", 0, path,
                  NoFile, readable, EmptyObj)

SaveFile ==
    \E path \in Paths \cup {NoFile}, dialog \in Paths \cup {NoFile},
       writable \in BOOLEAN :
        ApiCommit(save_file(ApiCur, path, dialog, writable), "save_file", 0,
                  path, dialog, writable, EmptyObj)

GetExtensionSettings(n) ==
    ApiCommit(ApiCur, "get_extension_settings", n, NoFile, NoFile, TRUE,
              get_extension_settings(ApiCur.settings, n))

SetExtensionSettings(n) ==
    \E obj \in Objs, written \in BOOLEAN :
        ApiCommit(set_extension_settings(ApiCur, n, obj, written),
                  "set_extension_settings", n, NoFile, NoFile, written, obj)

InitApi == Init

NextApi ==
    \/ OpenFile
    \/ SaveFile
    \/ \E n \in Names : GetExtensionSettings(n)
    \/ \E n \in Names : SetExtensionSettings(n)

SpecApi == InitApi /\ [][NextApi]_vars

\* ------------------------------------------------------------- properties
\* The program's own state: everything but the two history variables.
ProgVars == <<loaded, info, resources, menu_items, enabled_extensions,
              EVENT_LISTENERS, menu, resKind, destroyCalls, selfCalls>>
Elems(s) == {s[i] : i \in 1..Len(s)}
\* How often resource r has been disposed, by either way.
Disposed(r) == destroyCalls[r] + selfCalls[r]
LoadOps == {"startup", "reload"}
\* The listeners of the bus that carry owner n.
OwnedBy(L, n) ==
    UNION {{<<ev, i>> : i \in {j \in 1..Len(L[ev]) : L[ev][j].owner = n}} : ev \in Events}
\* The extension registries and the resources' disposal counts.
Registries == <<loaded, info, resources, menu_items, enabled_extensions,
                EVENT_LISTENERS, resKind, destroyCalls, selfCalls>>

\* C1: disable(E) on a loaded extension whose teardown hook raises still
\* disposes every resource of E, removes E's menu items, marks E not
\* enabled, takes E off the persisted list and rebuilds the menu, and
\* raises nothing.
C1_DisableCompletesWhenTeardownRaises ==
    [][(last'.op = "disable" /\ last'.name \in last'.tdRaised) =>
         LET n == last'.name
         IN /\ last'.exc = "none"
            /\ \A r \in Elems(resources[n]) : Disposed(r)' = Disposed(r) + 1
            /\ resources'[n] = <<>>
            /\ menu_items'[n] = <<>>
            /\ ~info'[n].enabled
            /\ ~InSeq(n, enabled_extensions')
            /\ last'.rebuilt]_vars

\* C2: every resource that is registered and not yet disposed when
\* load_all is called has been disposed when load_all returns.
C2_LoadAllDisposesEveryResource ==
    [][last'.op \in LoadOps =>
         \A n \in Names : \A r \in Elems(resources[n]) : Disposed(r)' >= 1]_vars

\* C3: an extension marked enabled is in the loaded set, and since it was
\* last loaded or disabled its setup step has run without raising.
C3_EnabledImpliesSetupDone ==
    \A n \in Names :
        (info[n].present /\ info[n].enabled) =>
            (loaded[n] = "mod" /\ lifecycle[n] = "on")

\* C4: when a loaded extension E is disabled, each resource registered for
\* E is disposed exactly once, by its destroy method if it has one and
\* else by calling it, and E's resource list is then empty.
C4_DisposedExactlyOnceOnDisable ==
    [][(last'.op \in {"disable", "toggle_off"} /\ loaded[last'.name] = "mod") =>
         LET n == last'.name
         IN /\ \A r \in Elems(resources[n]) :
                  IF resKind[r] = "destroy"
                  THEN destroyCalls'[r] = destroyCalls[r] + 1
                       /\ selfCalls'[r] = selfCalls[r]
                  ELSE selfCalls'[r] = selfCalls[r] + 1
                       /\ destroyCalls'[r] = destroyCalls[r]
            /\ resources'[n] = <<>>]_vars

\* C5: a subscription made through the facade carries its extension as
\* owner, and after the extension has been torn down (by disable, or by
\* load_all without being enabled again) the bus holds no listener of that
\* owner.
C5_ListenersRemovedOnTeardown ==
    [][/\ \A ev \in Events : \A i \in 1..Len(EVENT_LISTENERS'[ev]) :
              \/ EVENT_LISTENERS'[ev][i].owner \in last'.setupCalled
              \/ i <= Len(EVENT_LISTENERS[ev])
                 /\ EVENT_LISTENERS'[ev][i] = EVENT_LISTENERS[ev][i]
       /\ (last'.op \in {"disable", "toggle_off"} /\ loaded[last'.name] = "mod") =>
              OwnedBy(EVENT_LISTENERS', last'.name) = {}
       /\ last'.op \in LoadOps =>
              \A n \in EnabledNow \ last'.setupCalled :
                  OwnedBy(EVENT_LISTENERS', n) = {}]_vars

C7_EnableNotLoadedRaises ==
    [][(last'.op \in {"enable", "toggle_on"} /\ loaded[last'.name] # "mod") =>
         /\ last'.exc = "not_loaded"
         /\ last'.setupCalled = {}
         /\ UNCHANGED Registries
         /\ last'.op = "enable" => (~last'.rebuilt /\ menu' = menu)]_vars

\* enable was called for an extension whose module failed to load, while
\* another extension was enabled.
C7_Witness ==
    /\ last.op = "enable"
    /\ last.exc = "not_loaded"
    /\ loaded[last.name] = "none"
    /\ info[last.name].error
    /\ \E m \in Names : info[m].enabled

\* C8: disable(name) does nothing (no hook call, no state change, no menu
\* rebuild) when name is unknown or failed to load, and when name is a
\* loaded extension that has never been enabled.
C8_DisableNoOpUnlessEnabled ==
    [][(/\ last'.op = "disable"
        /\ \/ loaded[last'.name] # "mod"
           \/ lifecycle[last'.name] = "fresh" /\ ~info[last'.name].enabled) =>
         /\ UNCHANGED ProgVars
         /\ last'.tdCalled = {}
         /\ ~last'.rebuilt
         /\ last'.exc = "none"]_vars

\* C9: in load_all a module that fails to load is recorded on its own
\* descriptor, no exception of a load, a teardown or a setup leaves
\* load_all, and the remaining extensions are still disabled, loaded and
\* enabled.
C9_LoadAllIsolatesFailures ==
    [][last'.op \in LoadOps =>
         /\ last'.exc = "none"
         /\ \A n \in Names :
              /\ n \notin last'.files =>
                    (loaded'[n] = "absent" /\ ~info'[n].present)
              /\ n \in last'.bad =>
                    /\ loaded'[n] = "none"
                    /\ info'[n] = [present |-> TRUE, enabled |-> FALSE, error |-> TRUE]
              /\ n \in last'.files \ last'.bad =>
                    (loaded'[n] = "mod" /\ info'[n].present /\ ~info'[n].error)
              /\ n \in EnabledNow => n \in last'.tdCalled
              /\ n \in EnabledNow \ last'.tdRaised =>
                    \A r \in Elems(resources[n]) : Disposed(r)' = Disposed(r) + 1
              /\ (/\ n \in last'.files \ last'.bad
                  /\ InSeq(n, enabled_extensions')
                  /\ n \notin last'.setupRaised) =>
                    (info'[n].enabled /\ lifecycle'[n] = "on")]_vars

\* A reload in which a teardown raised, one module failed to load, and an
\* extension was nevertheless enabled by its setup.
C9_Witness ==
    /\ last.op = "reload"
    /\ last.tdRaised # {}
    /\ last.bad # {}
    /\ last.setupCalled \ last.setupRaised # {}
    /\ \E n \in last.setupCalled : lifecycle[n] = "on"

\* C10: an extension that is on the persisted list when load_all is
\* called, and whose file still loads and sets up, is enabled and on the
\* list when load_all returns.
C10_LoadAllReenablesPersisted ==
    [][last'.op \in LoadOps =>
         \A n \in (last'.files \ last'.bad) \ last'.setupRaised :
             (n \in EnabledNow /\ InSeq(n, enabled_extensions)) =>
                 (info'[n].enabled /\ InSeq(n, enabled_extensions'))]_vars

\* The manager right after a load_all that found only extension n.
FreshlyLoaded(n) == scan_and_load(clear_registries(Cur), {n}, {})
\* The labels the menu shows beneath the toggle of extension n.
MenuLabels(m, n) ==
    LET its == SelectSeq(m, LAMBDA e : e.kind = "item" /\ e.name = n)
    IN [i \in 1..Len(its) |-> its[i].label]
EnableOps == {"enable", "toggle_on"}
DisableOps == {"disable", "toggle_off"}

\* C11: after an enable(E) that returned, and so after disable(E) followed
\* at once by enable(E), the menu items registered for E are those of a
\* single enable on a freshly loaded E: items do not accumulate.
C11_RestartYieldsFreshItems ==
    (last.op \in EnableOps /\ last.exc = "none") =>
        \E beh \in SetupBeh :
            /\ beh.hook = "ok"
            /\ menu_items[last.name] =
                   enable(FreshlyLoaded(last.name), last.name, beh).menu_items[last.name]

\* Extension E, set up before (its listener is on the bus), was disabled
\* and at once enabled again, and holds its one item.
C11_Witness ==
    /\ last.restart
    /\ last.exc = "none"
    /\ last.name \in last.setupCalled
    /\ OwnedBy(EVENT_LISTENERS, last.name) # {}
    /\ resources[last.name] = <<>>
    /\ menu_items[last.name] = <<"Say Hi">>

\* C12: after an enable(E) that returned the menu lists beneath E exactly
\* the items E's setup registered, each once and in order; after
\* disable(E) on a loaded E the menu lists no item of E and every resource
\* E had registered has been disposed.
C12_MenuFollowsEnableAndDisable ==
    [][/\ (last'.op \in EnableOps /\ last'.exc = "none") =>
            /\ MenuLabels(menu', last'.name) = menu_items'[last'.name]
            /\ menu_items'[last'.name] = <<"Say Hi">>
       /\ (last'.op \in DisableOps /\ loaded[last'.name] = "mod") =>
            /\ MenuLabels(menu', last'.name) = <<>>
            /\ \A r \in Elems(resources[last'.name]) : Disposed(r)' >= 1]_vars

\* ------------------------------------------------------------- bus properties
\* How many entries of a listener list carry callback c.
Count(snap, c) == Cardinality({i \in 1..Len(snap) : snap[i].cb = c})
\* The latest emit_event has returned and all it started or queued has run.
PublishDone == busop.op \in {"emit", "emit_step", "worker", "tick"} /\ Quiet

\* C13: when a listener of a published event has raised, emit_event has
\* raised nothing, every listener registered at the call has been invoked,
\* and the raising listener is still registered.
C13_RaisingListenerIsolated ==
    (/\ PublishDone
     /\ \E i \in 1..Len(frame.snap) :
           frame.snap[i].cb \in Raisers /\ calls[frame.snap[i].cb] > 0) =>
        /\ busop.exc = "none"
        /\ \A c \in Callbacks : calls[c] >= Count(frame.snap, c)
        /\ EVENT_LISTENERS[frame.event] = frame.snap

\* C14: emit_event never runs a listener itself: non-threaded listeners
\* are only queued for the owner thread, whether or not root.after
\* succeeds, and threaded ones run on worker threads.
C14_NoListenerOnPublisherStack == stackCalls = 0

\* C15: an emit_event with two or more threaded listeners invokes each
\* listener registered at the call exactly once, however its loop and the
\* started threads interleave.
C15_ThreadedListenersOnceEach ==
    (/\ PublishDone
     /\ Cardinality({i \in 1..Len(frame.snap) : frame.snap[i].threaded}) >= 2) =>
        \A c \in Callbacks : calls[c] = Count(frame.snap, c)

\* C16: remove_event_listener(event) with neither callback nor owner
\* leaves the event without listeners.
C16_UnsubscribeAllWithoutFilter ==
    [][(/\ busop'.op = "unsubscribe"
        /\ busop'.callback = NoCallback
        /\ busop'.owner = NoOwner) =>
         EVENT_LISTENERS'[busop'.event] = <<>>]_vars

\* C17: remove_event_listener(event, callback, owner) with both given
\* removes every listener whose callback or whose owner matches and keeps
\* those that match neither.
C17_UnsubscribeBothIsOrStyle ==
    [][(/\ busop'.op = "unsubscribe"
        /\ busop'.callback # NoCallback
        /\ busop'.owner # NoOwner) =>
         LET c == busop'.callback
             o == busop'.owner
         IN EVENT_LISTENERS'[busop'.event] =
                SelectSeq(EVENT_LISTENERS[busop'.event],
                          LAMBDA e : e.cb # c /\ e.owner # o)]_vars

\* C18: remove_event_listener with exactly one of callback and owner
\* keeps, in their order, exactly the listeners of the event that differ
\* in it, and leaves the other events' listeners alone.
C18_UnsubscribeOneFilter ==
    [][(/\ busop'.op = "unsubscribe"
        /\ (busop'.callback = NoCallback) # (busop'.owner = NoOwner)) =>
         LET c == busop'.callback
             o == busop'.owner
             ev == busop'.event
         IN /\ EVENT_LISTENERS'[ev] =
                  SelectSeq(EVENT_LISTENERS[ev],
                            LAMBDA e : IF c = NoCallback THEN e.owner # o
                                       ELSE e.cb # c)
            /\ \A x \in Events \ {ev} : EVENT_LISTENERS'[x] = EVENT_LISTENERS[x]]_vars

\* An unsubscribe by owner alone took one listener off an event and left
\* another of that event in place.
C18_Witness ==
    /\ busop.op = "unsubscribe"
    /\ busop.callback = NoCallback
    /\ busop.owner # NoOwner
    /\ busop.removed = 1
    /\ EVENT_LISTENERS[busop.event] # <<>>
    /\ \A i \in 1..Len(EVENT_LISTENERS[busop.event]) :
          EVENT_LISTENERS[busop.event][i].owner # busop.owner

\* C19: add_event_listener appends an entry whatever the list holds, and
\* an emit_event invokes a callback as often as the event's list holds it.
C19_SubscribedTwiceFiresTwice ==
    [][/\ busop'.op = "subscribe" =>
            \E th \in BOOLEAN :
                EVENT_LISTENERS'[busop'.event] =
                    Append(EVENT_LISTENERS[busop'.event],
                           [cb |-> busop'.callback, owner |-> busop'.owner,
                            threaded |-> th])
       /\ PublishDone' =>
            \A c \in Callbacks : calls'[c] = Count(frame'.snap, c)]_vars

\* C20: emit_event for an event without listeners raises nothing, queues
\* nothing, starts no thread, calls nothing and leaves the registry as is.
C20_PublishWithoutSubscribers ==
    [][(busop'.op = "emit" /\ EVENT_LISTENERS[busop'.event] = <<>>) =>
         /\ busop'.exc = "none"
         /\ ~frame'.active
         /\ after_queue' = <<>>
         /\ workers' = 0
         /\ \A c \in Callbacks : calls'[c] = 0
         /\ stackCalls' = 0
         /\ EVENT_LISTENERS' = EVENT_LISTENERS]_vars

\* emit_event was called for an event without listeners while another
\* event had some.
C20_Witness ==
    /\ busop.op = "emit"
    /\ EVENT_LISTENERS[busop.event] = <<>>
    /\ \E x \in BusEvents : EVENT_LISTENERS[x] # <<>>
    /\ Quiet

\* The callbacks of the non-threaded entries of a listener list, in order.
RECURSIVE NonThreaded(_)
NonThreaded(snap) ==
    IF snap = <<>> THEN <<>>
    ELSE IF Head(snap).threaded THEN NonThreaded(Tail(snap))
    ELSE <<Head(snap).cb>> \o NonThreaded(Tail(snap))

\* C21: when a publish is over, its non-threaded listeners have been called
\* in the order in which they were subscribed.
C21_NonThreadedInSubscriptionOrder ==
    PublishDone => ran = NonThreaded(frame.snap)

\* C22: the worker gets past the wait of a stop only on a directive issued
\* after it cleared the event for that stop; a directive issued before, while
\* it was running, does not let it through.
C22_ResumesOnlyOnDirectiveAfterStop ==
    runner.pc \in {"read", "apply"} => trail.fresh

\* The worker is parked although a directive was issued before it cleared
\* the event.
C22_Witness ==
    /\ runner.pc = "wait"
    /\ ~gui_bdb.wait_event
    /\ gui_bdb.next_action # NoAction
    /\ ~trail.fresh

\* C23: a directive issued after the owner took the stopped message of the
\* current stop off the queue is not lost: the worker is never left waiting
\* on a clear event with such a directive issued and not yet acted on.
C23_DirectiveAfterStopIsNotLost ==
    ~(runner.pc = "wait" /\ ~gui_bdb.wait_event /\ trail.pending)

\* A message with this tag is in the sequence.
Has(s, tag) == \E i \in 1..Len(s) : s[i].tag = tag

\* C24: a session that reports an error never reports Finished.
C24_ErroredNeverFinished ==
    Has(Rendered, "error") => ~Has(Rendered, "finished")

\* C25: a session ended by a quit directive has reported Exited and has not
\* reported an error.
C25_QuitReportsExited ==
    (runner.pc = "done" /\ gui_bdb.stop_requested)
        => (Has(trail.produced, "exited") /\ ~Has(trail.produced, "error"))

\* C26: a directive sent while the worker is not parked is ignored: the
\* directive the worker applies at a stop is the one that was sent to it
\* while it was parked there.
C26_AppliesTheWakingDirective ==
    runner.pc = "apply" => runner.action = trail.waker

\* C27: what poll_queue has rendered, followed by what is still on the
\* queue, is what the worker has put, in the order of the puts: nothing is
\* dropped, duplicated or reordered.
C27_PollRendersInProductionOrder ==
    Rendered \o gui_q = trail.produced

\* A finished session whose three or more messages have all been rendered.
C27_Witness ==
    /\ runner.pc = "done"
    /\ gui_q = <<>>
    /\ Len(Rendered) >= 3

\* The session's source compiles and raises nowhere.
ExceptionFree == source.compiles /\ source.raiseAt = 0

\* C28: whatever was toggled, the session has no breakpoint: it stops only
\* while stepping, never after a continue, and with an exception-free source
\* it ends with Finished and without an error.
C28_ToggleBreakpointBindsNothing ==
    /\ gui_bdb.breaks = {}
    /\ runner.pc \in {"clear", "wait", "read"}
           => gui_bdb.stopinfo \in {"step", "next"}
    /\ (runner.pc = "done" /\ ExceptionFree)
           => /\ trail.produced[Len(trail.produced)].tag = "finished"
              /\ ~Has(trail.produced, "error")

\* A session started after a toggle was continued from its first stop and
\* has finished without another stop.
C28_Witness ==
    /\ out # <<>>
    /\ out[1].tag = "breakpoint"
    /\ runner.pc = "done"
    /\ ExceptionFree
    /\ gui_bdb.stopinfo = "continue"
    /\ StoppedIn(trail.produced) = 1
    /\ Has(Rendered, "finished")

\* C29: open_file and save_file return a boolean: True exactly when there
\* was a path and the file could be read or written, and then they have
\* published one event carrying the path and the file name is that path;
\* on False they have published nothing and the file name is as before.
C29_OpenAndSaveReportWithoutRaising ==
    apiop.op \in {"open_file", "save_file"} =>
        LET target == IF apiop.op = "open_file" THEN apiop.path
                      ELSE SaveTarget(apiop.fileBefore, apiop.path, apiop.dialog)
            event == IF apiop.op = "open_file" THEN "file_opened" ELSE "file_saved"
        IN /\ apiop.ret \in BOOLEAN
           /\ apiop.ret = (target # NoFile /\ apiop.ok)
           /\ apiop.ret => /\ apiop.events = <<[event |-> event, arg |-> target]>>
                           /\ file = target
           /\ ~apiop.ret => /\ apiop.events = <<>>
                            /\ file = apiop.fileBefore

\* With a file open, open_file of another, unreadable file has failed.
C29_Witness ==
    /\ apiop.op = "open_file"
    /\ ~apiop.ret
    /\ apiop.path # NoFile
    /\ file # NoFile
    /\ file # apiop.path

\* C30: after set_extension_settings(obj) by an extension its
\* get_extension_settings() is obj, that of every other extension is as
\* before, and so is every other key of SETTINGS.
C30_ExtensionSettingsNamespaced ==
    apiop.op = "set_extension_settings" =>
        /\ get_extension_settings(ApiCur.settings, apiop.name) = apiop.obj
        /\ \A n \in Names \ {apiop.name} :
               get_extension_settings(ApiCur.settings, n) = apiop.seen[n]
        /\ enabled_extensions = apiop.enabledBefore

\* ------------------------------------------------------------- menu properties
\* The positions of the checkbuttons in a menu, and the checkbutton that an
\* entry at position i stands beneath.
TogglePos(m) == {i \in 1..Len(m) : m[i].kind = "toggle"}
ToggleAbove(m, i) == CHOOSE j \in TogglePos(m) :
                         j < i /\ \A k \in TogglePos(m) : k < i => k <= j
Present == {n \in Names : info[n].present}

\* The menu is laid out as build_extensions_menu lays it out for the
\* registries inf and items.
WellBuilt(m, inf, items) ==
    /\ Len(m) >= 3
    /\ m[1] = FixedEntry("open_folder")
    /\ m[2] = FixedEntry("reload")
    /\ m[3] = FixedEntry("separator")
    /\ \A n \in Names :
          Cardinality({i \in TogglePos(m) : m[i].name = n})
              = IF inf[n].present THEN 1 ELSE 0
    /\ \A i, j \in TogglePos(m) : i < j => m[i].name < m[j].name
    /\ \A i \in TogglePos(m) : m[i].checked = inf[m[i].name].enabled
    /\ \A i \in 4..Len(m) :
          m[i].kind \in {"aux", "item"} =>
              /\ \E j \in TogglePos(m) : j < i
              /\ m[ToggleAbove(m, i)].name = m[i].name
    /\ \A n \in Names : inf[n].present => MenuLabels(m, n) = items[n]

\* C31: the menu a rebuild leaves depends on the registries only, so a
\* second rebuild changes nothing; it starts with the fixed commands, then
\* holds one checkbutton per descriptor in ascending name order, checked as
\* the descriptor is enabled, each with its extension's items beneath it.
C31_MenuRebuildIdempotent ==
    LET once == build_extensions_menu(Cur)
        twice == build_extensions_menu(once)
    IN /\ twice.menu = once.menu
       /\ WellBuilt(once.menu, info, menu_items)
       /\ last.rebuilt => menu = once.menu

\* Two descriptors, the first enabled with its item in the menu, the second
\* not enabled.
C31_Witness ==
    /\ last.rebuilt
    /\ Present = {1, 2}
    /\ info[1].enabled
    /\ ~info[2].enabled
    /\ menu_items[1] # <<>>

\* C32: a successfully loaded extension is marked enabled exactly when its
\* name is on the persisted list, and the list holds no name twice.
C32_EnabledFlagMatchesPersistedList ==
    /\ \A n \in Names :
          loaded[n] = "mod" =>
              ((info[n].present /\ info[n].enabled) <=> InSeq(n, enabled_extensions))
    /\ \A i, j \in 1..Len(enabled_extensions) :
          enabled_extensions[i] = enabled_extensions[j] => i = j

\* Both extensions are loaded; one was just disabled and is off the list,
\* the other is enabled and on it.
C32_Witness ==
    /\ last.op \in DisableOps
    /\ \A n \in Names : loaded[n] = "mod"
    /\ ~info[last.name].enabled
    /\ ~InSeq(last.name, enabled_extensions)
    /\ \E n \in Names \ {last.name} :
          info[n].enabled /\ InSeq(n, enabled_extensions)

\* C33: the menu lists registered items only beneath checkbuttons that are
\* checked, that is, only for extensions that are marked enabled.
C33_ItemsOnlyBeneathEnabled ==
    \A i \in 1..Len(menu) :
        menu[i].kind = "item" =>
            /\ info[menu[i].name].present /\ info[menu[i].name].enabled
            /\ \E j \in TogglePos(menu) :
                   menu[j].name = menu[i].name /\ menu[j].checked

\* C34: off(event, cb) by extension E, which is remove_event_listener with
\* both the callback and the owner given, takes off the event's list
\* exactly the entries with that callback and that owner: entries of other
\* owners, of other callbacks and of other events stay, in their order.
C34_OffRemovesOnlyOwnSubscription ==
    [][(/\ busop'.op = "unsubscribe"
        /\ busop'.callback # NoCallback
        /\ busop'.owner # NoOwner) =>
         /\ EVENT_LISTENERS'[busop'.event] =
                SelectSeq(EVENT_LISTENERS[busop'.event],
                          LAMBDA e : ~(e.cb = busop'.callback /\ e.owner = busop'.owner))
         /\ \A x \in Events \ {busop'.event} :
                EVENT_LISTENERS'[x] = EVENT_LISTENERS[x]]_vars

\* An off took one subscription away and left another extension's
\* subscription of the same callback to the same event.
C34_Witness ==
    /\ busop.op = "unsubscribe"
    /\ busop.callback # NoCallback
    /\ busop.owner # NoOwner
    /\ busop.removed = 1
    /\ \E i \in 1..Len(EVENT_LISTENERS[busop.event]) :
          /\ EVENT_LISTENERS[busop.event][i].cb = busop.callback
          /\ EVENT_LISTENERS[busop.event][i].owner # busop.owner

\* Where the worker's messages carry this tag.
TagPos(s, tag) == {i \in 1..Len(s) : s[i].tag = tag}

\* C35: the worker puts the finished message at most once and nothing
\* after it, and a worker that has ended, on whatever path, has put it.
C35_FinishedOnceAndLast ==
    /\ Cardinality(TagPos(trail.produced, "finished")) <= 1
    /\ \A i \in TagPos(trail.produced, "finished") : i = Len(trail.produced)
    /\ runner.pc = "done" => TagPos(trail.produced, "finished") # {}

\* A session that stopped, was resumed and then raised has ended.
C35_Witness ==
    /\ runner.pc = "done"
    /\ Has(trail.produced, "stopped")
    /\ Has(trail.produced, "error")
    /\ trail.produced[Len(trail.produced)].tag = "finished"

\* C36: at most one debug worker thread of the window is live at a time.
C36_AtMostOneLiveWorker ==
    ~(Live(runner) /\ Live(runner2))
====
